---- MODULE Spec2Model ----
(***************************************************************************)
(* Time-partitioned agent/event store of threat_graph                      *)
(* (app/models/wazuh_db.py).  The document store is modelled as a map from *)
(* index name to its mapping and documents; every core operation is a      *)
(* sequence of store calls (indices.exists, indices.create, then index,    *)
(* search or count), one action per store call, so that callers in         *)
(* different workers interleave at store-call granularity.                 *)
(***************************************************************************)
EXTENDS Integers, Sequences, FiniteSets, TLC

VARIABLES clock, indices, created, nextId, calls

vars == <<clock, indices, created, nextId, calls>>

(***************************************************************************)
(* Bounds                                                                  *)
(***************************************************************************)
MaxCallers == 2      \* concurrent callers (workers)
MaxTime == 2         \* timestamps are 0..MaxTime
MaxDocs == 2         \* documents held plus saves in flight
MaxMonths == 1       \* month roll-overs of the wall clock in one behaviour
MaxDay == 2          \* days of a month the wall clock distinguishes

Callers == 1..MaxCallers
Times == 0..MaxTime

(***************************************************************************)
(* Python values                                                           *)
(***************************************************************************)
None == <<>>
Some(v) == <<v>>

\* Python truthiness of an Optional[List[str]] (None and [] are falsy).
Truthy(o) == o # None /\ o[1] # {}

MAX_RESULTS == 10000

(***************************************************************************)
(* Inputs                                                                  *)
(***************************************************************************)
AgentIds == {"001", "002"}
Groups == {"group1", "group2"}
Statuses == {"Active", "active"}
RuleLevels == {7, 8, 14, 15}
Limits == {0, 1, 101}

\* schemas/wazuh.py AgentMessagesRequest: limit = Field(20, ge=1, le=100)
AgentMessagesRequest_limit(limit) == limit >= 1 /\ limit <= 100

\* schemas/wazuh.py Agent
AgentSchema ==
    [agent_name : {"test-agent-1"}, agent_id : AgentIds, ip : {"192.168.1.100"},
     agent_status : Statuses, status_code : {0}, last_keep_alive : {0},
     os : {"Ubuntu"}, os_version : {"20.04"}, group_name : Groups]

\* schemas/wazuh.py WazuhEvent
WazuhEvent ==
    [timestamp : Times, agent_id : AgentIds, agent_ip : {"192.168.1.100"},
     rule_description : {"File added to the system."}, rule_level : RuleLevels,
     rule_id : {"550"}, rule_mitre_id : {None}, rule_mitre_tactic : {None},
     rule_mitre_technique : {None}, group_name : Groups]

(***************************************************************************)
(* Conversions                                                             *)
(***************************************************************************)
\* datetime.isoformat(): the text form of a datetime.
isoformat(t) == [iso |-> t]

\* The store's date parser (mapping type "date").
ParseDate(s) == s.iso

\* A serialisation that keeps the status as the agent reported it.
lower_identity(s) == s

\* str.lower() on the status strings in use.
lower(s) ==
    CASE s = "Active" -> "active"
      [] s = "Disconnected" -> "disconnected"
      [] OTHER -> s

\* datetime.now().strftime('%Y_%m') with the month zero-padded to 2 digits.
strftime_Y_m(dt) == <<dt.year, "_", dt.month \div 10, dt.month % 10>>

\* A key that also carries the day, as strftime('%Y_%m_%d') would give.
index_name_daily(dt) == <<strftime_Y_m(dt), "_", dt.day, "_agents_data">>

\* A key that does not depend on the clock.
index_name_static(dt) == <<"agents_data">>

\* f"{datetime.now().strftime('%Y_%m')}_agents_data"
index_name_of(dt) == <<strftime_Y_m(dt), "_agents_data">>

\* The fixed mapping of create_index_with_mapping.
mapping ==
    [mappings |-> [properties |->
        [agent_name |-> "keyword", agent_id |-> "keyword", ip |-> "ip",
         agent_status |-> "keyword", status_code |-> "integer",
         last_keep_alive |-> "date", os |-> "keyword", os_version |-> "keyword",
         group_name |-> "keyword", wazuh_data_type |-> "keyword",
         timestamp |-> "date", rule_description |-> "text",
         rule_level |-> "integer", rule_id |-> "keyword",
         rule_mitre_id |-> "keyword", rule_mitre_tactic |-> "keyword",
         rule_mitre_technique |-> "keyword", agent_ip |-> "ip"]]]

(***************************************************************************)
(* AgentModel / EventModel                                                 *)
(***************************************************************************)
\* AgentModel.__init__: copies the schema fields, stamps the discriminator
\* and the capture time datetime.utcnow().
AgentModel(agent, utcnow) ==
    [agent_name |-> agent.agent_name, agent_id |-> agent.agent_id, ip |-> agent.ip,
     agent_status |-> agent.agent_status, status_code |-> agent.status_code,
     last_keep_alive |-> agent.last_keep_alive, group_name |-> agent.group_name,
     os |-> agent.os, os_version |-> agent.os_version,
     wazuh_data_type |-> "agent_info", timestamp |-> utcnow]

AgentModel_to_dict(self) ==
    [agent_name |-> self.agent_name, agent_id |-> self.agent_id, ip |-> self.ip,
     agent_status |-> lower(self.agent_status), status_code |-> self.status_code,
     last_keep_alive |-> isoformat(self.last_keep_alive),
     os |-> self.os, os_version |-> self.os_version, group_name |-> self.group_name,
     wazuh_data_type |-> self.wazuh_data_type,
     timestamp |-> isoformat(self.timestamp)]

\* A document id taken from the agent's group instead of its agent_id.
AgentDocId_group(agent) == <<"agent_", agent.group_name>>

\* id=f"agent_{agent.agent_id}"
AgentDocId(agent) == <<"agent_", agent.agent_id>>

\* EventModel.__init__
EventModel(event) ==
    [timestamp |-> event.timestamp, agent_id |-> event.agent_id,
     agent_ip |-> event.agent_ip, rule_description |-> event.rule_description,
     rule_level |-> event.rule_level, rule_id |-> event.rule_id,
     rule_mitre_id |-> event.rule_mitre_id,
     rule_mitre_tactic |-> event.rule_mitre_tactic,
     rule_mitre_technique |-> event.rule_mitre_technique,
     wazuh_data_type |-> "wazuh_events", group_name |-> event.group_name]

EventModel_to_dict(self) ==
    [timestamp |-> isoformat(self.timestamp), agent_id |-> self.agent_id,
     agent_ip |-> self.agent_ip, rule_description |-> self.rule_description,
     rule_level |-> self.rule_level, rule_id |-> self.rule_id,
     rule_mitre_id |-> self.rule_mitre_id,
     rule_mitre_tactic |-> self.rule_mitre_tactic,
     rule_mitre_technique |-> self.rule_mitre_technique,
     group_name |-> self.group_name, wazuh_data_type |-> self.wazuh_data_type]

\* A store that gives every document indexed without an id the same id.
AutoId_fixed(n) == <<"auto_", "0">>

\* The id the store assigns to a document indexed without one.
AutoId(n) == <<"auto_", ToString(n)>>

(***************************************************************************)
(* The document store: query evaluation                                    *)
(***************************************************************************)
Min(a, b) == IF a <= b THEN a ELSE b

\* The single key of a one-entry JSON object such as {"timestamp": {...}}.
OnlyKey(obj) == CHOOSE k \in DOMAIN obj : TRUE

\* A value of a range query or of a document, read by the field's mapping type.
FieldValue(field, v) ==
    IF mapping.mappings.properties[field] = "date" THEN ParseDate(v) ELSE v

\* {"range": {field: {"gte": .., "gt": .., "lte": .., "lt": ..}}}
EvalRange(src, r) ==
    LET field == OnlyKey(r)
        b == r[field]
    IN /\ field \in DOMAIN src
       /\ LET v == FieldValue(field, src[field])
          IN /\ "gte" \in DOMAIN b => v >= FieldValue(field, b.gte)
             /\ "gt" \in DOMAIN b => v > FieldValue(field, b.gt)
             /\ "lte" \in DOMAIN b => v <= FieldValue(field, b.lte)
             /\ "lt" \in DOMAIN b => v < FieldValue(field, b.lt)

\* {"term": {field: value}}
EvalTerm(src, t) ==
    LET field == OnlyKey(t)
    IN field \in DOMAIN src /\ src[field] = t[field]

\* {"terms": {field: [values]}}
EvalTerms(src, t) ==
    LET field == OnlyKey(t)
    IN field \in DOMAIN src /\ src[field] \in t[field]

\* One leaf clause.
EvalClause(src, c) ==
    CASE "range" \in DOMAIN c -> EvalRange(src, c.range)
      [] "term" \in DOMAIN c -> EvalTerm(src, c.term)
      [] "terms" \in DOMAIN c -> EvalTerms(src, c.terms)

\* A query is either {"bool": {"must": [clauses]}} or one leaf clause.
EvalQuery(src, q) ==
    IF "bool" \in DOMAIN q
    THEN \A i \in 1..Len(q.bool.must) : EvalClause(src, q.bool.must[i])
    ELSE EvalClause(src, q)

\* Ids of the documents of an index that match a query.
Matching(docs, q) == {id \in DOMAIN docs : EvalQuery(docs[id], q)}

\* The order a search body asks for: "asc", "desc", or "none" without a sort.
SortOrder(body) ==
    IF "sort" \in DOMAIN body THEN body.sort[1].timestamp.order ELSE "none"

\* f lists ids in an order the sort allows (ties in any order).
Sorted(docs, f, order) ==
    \A i, j \in DOMAIN f :
        i < j =>
            LET ti == ParseDate(docs[f[i]].timestamp)
                tj == ParseDate(docs[f[j]].timestamp)
            IN CASE order = "asc" -> ti <= tj
                 [] order = "desc" -> ti >= tj
                 [] OTHER -> TRUE

Hit(docs, id) == [_id |-> id, _source |-> docs[id]]

\* es.search(index, body): every response the store may give: the first
\* `size` matches in sort order, and the number of all matches as total.
SearchResponses(docs, body) ==
    LET ids == Matching(docs, body.query)
        n == Cardinality(ids)
        k == Min(n, body.size)
        orders == {f \in [1..n -> ids] :
                      /\ \A i, j \in 1..n : i # j => f[i] # f[j]
                      /\ Sorted(docs, f, SortOrder(body))}
    IN {[hits |-> [hits |-> [i \in 1..k |-> Hit(docs, f[i])],
                   total |-> [value |-> n]]] : f \in orders}

\* es.count(index, body)
CountResponse(docs, body) == [count |-> Cardinality(Matching(docs, body.query))]

(***************************************************************************)
(* Exceptions                                                              *)
(***************************************************************************)
NoExc == [type |-> "none", error |-> ""]
NotFoundError == [type |-> "NotFoundError", error |-> "index_not_found_exception"]
ConnectionError == [type |-> "ConnectionError", error |-> "N/A"]
AlreadyExists == [type |-> "RequestError", error |-> "resource_already_exists_exception"]
BadRequest == [type |-> "RequestError", error |-> "illegal_argument_exception"]
UserNotFoundError == [type |-> "UserNotFoundError", error |-> ""]
ElasticsearchError == [type |-> "ElasticsearchError", error |-> ""]

\* Faults the store may answer with: to indices.exists, to indices.create
\* (besides "already exists"), and to index, search and count.
ExistsFaults == {ConnectionError}
CreateFaults == {ConnectionError, BadRequest}
CallFaults == {NotFoundError, ConnectionError}

\* An except clause that lets every RequestError leave the function.
create_index_except_all(e) == e

\* An except clause that logs every RequestError and lets none leave.
create_index_except_none(e) == NoExc

\* create_index_with_mapping: "except RequestError as e": an "already exists"
\* answer is logged and swallowed, anything else leaves the function.
create_index_except(e) ==
    IF e.type = "RequestError" /\ e.error = "resource_already_exists_exception"
    THEN NoExc
    ELSE e

\* The decorator handle_es_exceptions: what the wrapper raises for an
\* exception e leaving the wrapped function.
handle_es_exceptions(e) ==
    IF e.type = "NotFoundError" THEN UserNotFoundError ELSE ElasticsearchError

\* "except Exception as e: ...; raise" of both save_to_elasticsearch.
save_to_elasticsearch_except(e) == e

\* load_agents: the inner "except Exception" raises ElasticsearchError, which
\* then leaves through the decorator.
load_agents_except(e) == handle_es_exceptions(ElasticsearchError)

\* load_group_events_from_elasticsearch, load_from_elasticsearch_with_time_range
\* and load_all_events_from_elasticsearch: only the decorator.
load_events_except(e) == handle_es_exceptions(e)

\* get_events_in_timerange, get_high_level_event_count, get_events_for_pie_chart
\* and load_messages: "except Exception as e: raise ElasticsearchError(...)".
undecorated_except(e) == ElasticsearchError

SaveOps == {"AgentModel.save_to_elasticsearch", "EventModel.save_to_elasticsearch"}
DecoratedEventOps == {"load_group_events_from_elasticsearch",
                      "load_from_elasticsearch_with_time_range",
                      "load_all_events_from_elasticsearch"}
UndecoratedOps == {"get_events_in_timerange", "get_high_level_event_count",
                   "get_events_for_pie_chart", "load_messages"}
ReadOps == {"load_agents"} \cup DecoratedEventOps \cup UndecoratedOps

\* The exception the caller of operation op sees when store exception e is
\* raised inside it.
Surfaced(op, e) ==
    CASE op \in SaveOps -> save_to_elasticsearch_except(e)
      [] op = "load_agents" -> load_agents_except(e)
      [] op \in DecoratedEventOps -> load_events_except(e)
      [] op \in UndecoratedOps -> undecorated_except(e)

(***************************************************************************)
(* Query construction, one operator per read operation                     *)
(***************************************************************************)
\* load_agents with "lt" in place of "lte".
load_agents_query_lt(start_time, end_time, group_names) ==
    LET must == <<[term |-> [wazuh_data_type |-> "agent_info"]],
                  [range |-> [timestamp |->
                      [gte |-> isoformat(start_time), lt |-> isoformat(end_time),
                       format |-> "strict_date_optional_time"]]]>>
    IN [query |-> [bool |-> [must |->
            IF Truthy(group_names)
            THEN Append(must, [terms |-> [group_name |-> group_names[1]]])
            ELSE must]],
        sort |-> <<[timestamp |-> [order |-> "desc"]]>>,
        size |-> MAX_RESULTS]

load_agents_query(start_time, end_time, group_names) ==
    LET must == <<[term |-> [wazuh_data_type |-> "agent_info"]],
                  [range |-> [timestamp |->
                      [gte |-> isoformat(start_time), lte |-> isoformat(end_time),
                       format |-> "strict_date_optional_time"]]]>>
    IN [query |-> [bool |-> [must |->
            IF Truthy(group_names)
            THEN Append(must, [terms |-> [group_name |-> group_names[1]]])
            ELSE must]],
        sort |-> <<[timestamp |-> [order |-> "desc"]]>>,
        size |-> MAX_RESULTS]

\* load_group_events without the clause on group_name.
load_group_events_query_any(group_names, start_time, end_time) ==
    [query |-> [bool |-> [must |->
        <<[range |-> [timestamp |->
              [gte |-> isoformat(start_time), lte |-> isoformat(end_time)]]],
          [term |-> [wazuh_data_type |-> "wazuh_events"]]>>]],
     size |-> MAX_RESULTS]

load_group_events_query(group_names, start_time, end_time) ==
    [query |-> [bool |-> [must |->
        <<[range |-> [timestamp |->
              [gte |-> isoformat(start_time), lte |-> isoformat(end_time)]]],
          [terms |-> [group_name |-> group_names]],
          [term |-> [wazuh_data_type |-> "wazuh_events"]]>>]],
     size |-> MAX_RESULTS]

load_agent_events_query(agent_id, start_time, end_time) ==
    [query |-> [bool |-> [must |->
        <<[range |-> [timestamp |->
              [gte |-> isoformat(start_time), lte |-> isoformat(end_time)]]],
          [term |-> [agent_id |-> agent_id]],
          [term |-> [wazuh_data_type |-> "wazuh_events"]]>>]],
     size |-> MAX_RESULTS]

load_all_events_query(start_time, end_time) ==
    [query |-> [bool |-> [must |->
        <<[range |-> [timestamp |->
              [gte |-> isoformat(start_time), lte |-> isoformat(end_time)]]],
          [term |-> [wazuh_data_type |-> "wazuh_events"]]>>]],
     size |-> MAX_RESULTS]

\* get_events_in_timerange with "lte" in place of "lt".
get_events_in_timerange_query_lte(start_time, end_time, size) ==
    [query |-> [range |-> [timestamp |->
        [gte |-> isoformat(start_time), lte |-> isoformat(end_time)]]],
     size |-> size,
     sort |-> <<[timestamp |-> [order |-> "asc"]]>>]

get_events_in_timerange_query(start_time, end_time, size) ==
    [query |-> [range |-> [timestamp |->
        [gte |-> isoformat(start_time), lt |-> isoformat(end_time)]]],
     size |-> size,
     sort |-> <<[timestamp |-> [order |-> "asc"]]>>]

\* get_high_level_event_count with the band closed at 15.
get_high_level_event_count_query_15(start_time, end_time) ==
    [query |-> [bool |-> [must |->
        <<[range |-> [timestamp |->
              [gte |-> isoformat(start_time), lt |-> isoformat(end_time)]]],
          [range |-> [rule_level |-> [gte |-> 8, lte |-> 15]]]>>]]]

\* get_high_level_event_count with "lte" in place of "lt".
get_high_level_event_count_query_lte(start_time, end_time) ==
    [query |-> [bool |-> [must |->
        <<[range |-> [timestamp |->
              [gte |-> isoformat(start_time), lte |-> isoformat(end_time)]]],
          [range |-> [rule_level |-> [gte |-> 8, lte |-> 14]]]>>]]]

get_high_level_event_count_query(start_time, end_time) ==
    [query |-> [bool |-> [must |->
        <<[range |-> [timestamp |->
              [gte |-> isoformat(start_time), lt |-> isoformat(end_time)]]],
          [range |-> [rule_level |-> [gte |-> 8, lte |-> 14]]]>>]]]

\* get_events_for_pie_chart restricted to documents tagged wazuh_events.
get_events_for_pie_chart_query_events(start_time, end_time, size) ==
    [query |-> [bool |-> [must |->
        <<[range |-> [timestamp |->
              [gte |-> isoformat(start_time), lt |-> isoformat(end_time)]]],
          [term |-> [wazuh_data_type |-> "wazuh_events"]]>>]],
     size |-> size,
     sort |-> <<[timestamp |-> [order |-> "asc"]]>>]

get_events_for_pie_chart_query(start_time, end_time, size) ==
    [query |-> [range |-> [timestamp |->
        [gte |-> isoformat(start_time), lt |-> isoformat(end_time)]]],
     size |-> size,
     sort |-> <<[timestamp |-> [order |-> "asc"]]>>]

\* load_messages with the default page size in place of the limit.
load_messages_query_unlimited(start_time, end_time, group_names, limit) ==
    LET must == <<[range |-> [timestamp |->
                      [gte |-> isoformat(start_time), lt |-> isoformat(end_time)]]],
                  [range |-> [rule_level |-> [gt |-> 8]]]>>
    IN [query |-> [bool |-> [must |->
            IF Truthy(group_names)
            THEN Append(must, [terms |-> [group_name |-> group_names[1]]])
            ELSE must]],
        sort |-> <<[timestamp |-> [order |-> "desc"]]>>,
        size |-> MAX_RESULTS]

load_messages_query(start_time, end_time, group_names, limit) ==
    LET must == <<[range |-> [timestamp |->
                      [gte |-> isoformat(start_time), lt |-> isoformat(end_time)]]],
                  [range |-> [rule_level |-> [gt |-> 8]]]>>
    IN [query |-> [bool |-> [must |->
            IF Truthy(group_names)
            THEN Append(must, [terms |-> [group_name |-> group_names[1]]])
            ELSE must]],
        sort |-> <<[timestamp |-> [order |-> "desc"]]>>,
        size |-> limit]

\* [hit['_source'] for hit in response['hits']['hits']]
Sources(response) ==
    [i \in 1..Len(response.hits.hits) |-> response.hits.hits[i]._source]

(***************************************************************************)
(* State                                                                   *)
(***************************************************************************)
Idle ==
    [pc |-> "idle", op |-> "none", args |-> None, at |-> None, index_name |-> None,
     log |-> <<>>, result |-> None, exc |-> NoExc]

\* Documents held by all partitions together.
TotalDocs ==
    LET RECURSIVE Sum(_)
        Sum(S) == IF S = {} THEN 0
                  ELSE LET i == CHOOSE x \in S : TRUE
                       IN Cardinality(DOMAIN indices[i].docs) + Sum(S \ {i})
    IN Sum(DOMAIN indices)

InFlightSaves == Cardinality({p \in Callers : calls[p].op \in SaveOps /\ calls[p].pc # "done"})

FirstClock == [year |-> 2024, month |-> 12, day |-> 1]

Init ==
    /\ clock = FirstClock
    /\ indices = <<>>
    /\ created = <<>>
    /\ nextId = 1
    /\ calls = [p \in Callers |-> Idle]

(***************************************************************************)
(* Entering an operation                                                   *)
(***************************************************************************)
\* Caller p enters operation op; create_index_with_mapping reads the wall
\* clock (at) and derives the partition key from it.
Begin(p, op, args) ==
    /\ calls[p].pc = "idle"
    /\ calls' = [calls EXCEPT ![p] =
          [pc |-> "exists", op |-> op, args |-> args, at |-> clock,
           index_name |-> index_name_of(clock), log |-> <<>>,
           result |-> None, exc |-> NoExc]]
    /\ UNCHANGED <<clock, indices, created, nextId>>

Call_AgentModel_save(p, in) ==
    /\ TotalDocs + InFlightSaves < MaxDocs
    /\ \E a \in in.agents :
          Begin(p, "AgentModel.save_to_elasticsearch",
                [agent |-> AgentModel(a.agent, a.utcnow)])

Call_EventModel_save(p, in) ==
    /\ TotalDocs + InFlightSaves < MaxDocs
    /\ \E event \in in.events :
          Begin(p, "EventModel.save_to_elasticsearch", [event |-> EventModel(event)])

Call_load_agents(p, in) ==
    \E q \in in.agent_queries :
        Begin(p, "load_agents",
              [start_time |-> q[1][1], end_time |-> q[1][2], group_names |-> q[2]])

Call_load_group_events(p, in) ==
    \E q \in in.group_queries :
        Begin(p, "load_group_events_from_elasticsearch",
              [group_names |-> q[2], start_time |-> q[1][1], end_time |-> q[1][2]])

Call_load_agent_events(p, in) ==
    \E q \in in.agent_event_queries :
        Begin(p, "load_from_elasticsearch_with_time_range",
              [agent_id |-> q[2], start_time |-> q[1][1], end_time |-> q[1][2]])

Call_load_all_events(p, in) ==
    \E w \in in.windows :
        Begin(p, "load_all_events_from_elasticsearch",
              [start_time |-> w[1], end_time |-> w[2]])

Call_get_events_in_timerange(p, in) ==
    \E w \in in.windows :
        Begin(p, "get_events_in_timerange",
              [start_time |-> w[1], end_time |-> w[2], size |-> 10000])

Call_get_high_level_event_count(p, in) ==
    \E w \in in.windows :
        Begin(p, "get_high_level_event_count",
              [start_time |-> w[1], end_time |-> w[2]])

Call_get_events_for_pie_chart(p, in) ==
    \E w \in in.windows :
        Begin(p, "get_events_for_pie_chart",
              [start_time |-> w[1], end_time |-> w[2], size |-> 10000])

Call_load_messages(p, in) ==
    \E q \in in.message_queries :
        Begin(p, "load_messages",
              [start_time |-> q[1][1], end_time |-> q[1][2], group_names |-> q[2],
               limit |-> q[3]])

(***************************************************************************)
(* create_index_with_mapping, one action per store call                    *)
(***************************************************************************)
\* A handler that, when the store failed, issues the same store call again.
Finish_retry(p, call, outcome, result, exc) ==
    calls' = IF outcome.failure
             THEN [calls EXCEPT ![p].log = Append(@, outcome @@ [call |-> call])]
             ELSE [calls EXCEPT ![p].pc = "done",
                                ![p].log = Append(@, outcome @@ [call |-> call]),
                                ![p].result = result,
                                ![p].exc = exc]

\* Operation of caller p ends: with a result, or with the exception exc.
Finish(p, call, outcome, result, exc) ==
    calls' = [calls EXCEPT ![p].pc = "done",
                           ![p].log = Append(@, outcome @@ [call |-> call]),
                           ![p].result = result,
                           ![p].exc = exc]

\* Caller p moves on to its next store call.
Goto(p, call, outcome, pc) ==
    calls' = [calls EXCEPT ![p].pc = pc,
                           ![p].log = Append(@, outcome @@ [call |-> call])]

\* Log entries: the store carried the call out, failed for a reason of its
\* own (network, server), or refused the call because of the index's state.
Ok(answer) == [outcome |-> answer, failure |-> FALSE]
Failed(e) == [outcome |-> e.error, failure |-> TRUE]
Refused(e) == [outcome |-> e.error, failure |-> FALSE]

\* The answer of es.indices.exists(index=index_name).
index_exists(index_name) == index_name \in DOMAIN indices

\* "if not es.indices.exists(index=index_name)"
indices_exists(p) ==
    /\ calls[p].pc = "exists"
    /\ \/ \E e \in ExistsFaults :
             Finish(p, "exists", Failed(e), None, Surfaced(calls[p].op, e))
       \/ IF index_exists(calls[p].index_name)
          THEN Goto(p, "exists", Ok("true"), "call")
          ELSE Goto(p, "exists", Ok("false"), "create")
    /\ UNCHANGED <<clock, indices, created, nextId>>

\* "es.indices.create(index=index_name, body=mapping)" and its except clause.
\* The store refuses to create an index that exists.
indices_create(p) ==
    /\ calls[p].pc = "create"
    /\ LET name == calls[p].index_name
           answers == (IF name \in DOMAIN indices THEN {AlreadyExists} ELSE {NoExc})
                          \cup CreateFaults
           Entry(a) == CASE a = NoExc -> Ok("created")
                         [] a = AlreadyExists -> Refused(a)
                         [] OTHER -> Failed(a)
       IN \E a \in answers :
            /\ IF a = NoExc
               THEN /\ indices' = indices @@
                          (name :> [mappings |-> mapping.mappings, docs |-> <<>>])
                    /\ created' = created @@ (name :> [count |-> 1, at |-> calls[p].at])
               ELSE UNCHANGED <<indices, created>>
            /\ LET e == create_index_except(a)
               IN IF e = NoExc
                  THEN Goto(p, "create", Entry(a), "call")
                  ELSE Finish(p, "create", Entry(a), None, Surfaced(calls[p].op, e))
    /\ UNCHANGED <<clock, nextId>>

(***************************************************************************)
(* The store call of each operation                                        *)
(***************************************************************************)
AtCall(p, op) == calls[p].pc = "call" /\ calls[p].op = op

Docs(p) ==
    IF calls[p].index_name \in DOMAIN indices
    THEN indices[calls[p].index_name].docs
    ELSE <<>>

\* es.index(index, id, body): create or overwrite the document with that id.
Put(docs, id, body) ==
    [x \in DOMAIN docs \cup {id} |-> IF x = id THEN body ELSE docs[x]]

\* The store fails instead of carrying out the call.
Fault(p, call) ==
    /\ \E e \in CallFaults : Finish(p, call, Failed(e), None, Surfaced(calls[p].op, e))
    /\ UNCHANGED <<clock, indices, created, nextId>>

\* A search or count on an index that does not exist is refused with
\* index_not_found_exception.
Missing(p, call) ==
    /\ calls[p].index_name \notin DOMAIN indices
    /\ Finish(p, call, Refused(NotFoundError), None, Surfaced(calls[p].op, NotFoundError))
    /\ UNCHANGED <<clock, indices, created, nextId>>

\* The mapping the store derives by itself when a document is indexed into
\* an index that does not exist.
DynamicMapping == [properties |-> [dynamic |-> "true"]]

\* History: how often each index was created, and the clock reading of the
\* call that created it.
Created(p) ==
    IF calls[p].index_name \in DOMAIN indices
    THEN created
    ELSE created @@ (calls[p].index_name :> [count |-> 1, at |-> calls[p].at])

\* The index after es.index(index, id, body); a missing index is created.
Indexed(index_name, id, body) ==
    IF index_name \in DOMAIN indices
    THEN [indices EXCEPT ![index_name].docs = Put(@, id, body)]
    ELSE indices @@ (index_name :> [mappings |-> DynamicMapping, docs |-> (id :> body)])

IndexResult(docs, id) ==
    [_id |-> id, result |-> IF id \in DOMAIN docs THEN "updated" ELSE "created"]

AgentModel_save_to_elasticsearch(p) ==
    /\ AtCall(p, "AgentModel.save_to_elasticsearch")
    /\ \/ Fault(p, "index")
       \/ LET agent == calls[p].args.agent
              agent_dict == AgentModel_to_dict(agent)
              id == AgentDocId(agent)
          IN /\ indices' = Indexed(calls[p].index_name, id, agent_dict)
             /\ created' = Created(p)
             /\ Finish(p, "index", Ok("ok"), IndexResult(Docs(p), id), NoExc)
             /\ UNCHANGED <<clock, nextId>>

EventModel_save_to_elasticsearch(p) ==
    /\ AtCall(p, "EventModel.save_to_elasticsearch")
    /\ \/ Fault(p, "index")
       \/ LET event_dict == EventModel_to_dict(calls[p].args.event)
              id == AutoId(nextId)
          IN /\ indices' = Indexed(calls[p].index_name, id, event_dict)
             /\ nextId' = nextId + 1
             /\ created' = Created(p)
             /\ Finish(p, "index", Ok("ok"), IndexResult(Docs(p), id), NoExc)
             /\ UNCHANGED clock

\* A search whose result is the list of _source documents.
SearchSources(p, body) ==
    \/ Fault(p, "search")
    \/ Missing(p, "search")
    \/ /\ calls[p].index_name \in DOMAIN indices
       /\ \E response \in SearchResponses(Docs(p), body) :
             Finish(p, "search", Ok("ok"), Sources(response), NoExc)
       /\ UNCHANGED <<clock, indices, created, nextId>>

\* A search whose result is the list of hits.
SearchHits(p, body) ==
    \/ Fault(p, "search")
    \/ Missing(p, "search")
    \/ /\ calls[p].index_name \in DOMAIN indices
       /\ \E response \in SearchResponses(Docs(p), body) :
             Finish(p, "search", Ok("ok"), response.hits.hits, NoExc)
       /\ UNCHANGED <<clock, indices, created, nextId>>

load_agents(p) ==
    /\ AtCall(p, "load_agents")
    /\ LET a == calls[p].args
       IN SearchSources(p, load_agents_query(a.start_time, a.end_time, a.group_names))

load_group_events_from_elasticsearch(p) ==
    /\ AtCall(p, "load_group_events_from_elasticsearch")
    /\ LET a == calls[p].args
       IN SearchSources(p, load_group_events_query(a.group_names, a.start_time, a.end_time))

load_from_elasticsearch_with_time_range(p) ==
    /\ AtCall(p, "load_from_elasticsearch_with_time_range")
    /\ LET a == calls[p].args
       IN SearchSources(p, load_agent_events_query(a.agent_id, a.start_time, a.end_time))

load_all_events_from_elasticsearch(p) ==
    /\ AtCall(p, "load_all_events_from_elasticsearch")
    /\ LET a == calls[p].args
       IN SearchSources(p, load_all_events_query(a.start_time, a.end_time))

get_events_in_timerange(p) ==
    /\ AtCall(p, "get_events_in_timerange")
    /\ LET a == calls[p].args
       IN SearchHits(p, get_events_in_timerange_query(a.start_time, a.end_time, a.size))

get_high_level_event_count(p) ==
    /\ AtCall(p, "get_high_level_event_count")
    /\ \/ Fault(p, "count")
       \/ Missing(p, "count")
       \/ LET a == calls[p].args
              body == get_high_level_event_count_query(a.start_time, a.end_time)
          IN /\ calls[p].index_name \in DOMAIN indices
             /\ Finish(p, "count", Ok("ok"), CountResponse(Docs(p), body).count, NoExc)
             /\ UNCHANGED <<clock, indices, created, nextId>>

get_events_for_pie_chart(p) ==
    /\ AtCall(p, "get_events_for_pie_chart")
    /\ LET a == calls[p].args
       IN SearchHits(p, get_events_for_pie_chart_query(a.start_time, a.end_time, a.size))

load_messages(p) ==
    /\ AtCall(p, "load_messages")
    /\ \/ Fault(p, "search")
       \/ Missing(p, "search")
       \/ LET a == calls[p].args
              body == load_messages_query(a.start_time, a.end_time, a.group_names, a.limit)
          IN /\ calls[p].index_name \in DOMAIN indices
             /\ \E response \in SearchResponses(Docs(p), body) :
                   Finish(p, "search", Ok("ok"),
                          [messages |-> Sources(response),
                           total_count |-> response.hits.total.value], NoExc)
             /\ UNCHANGED <<clock, indices, created, nextId>>

\* The caller takes the result or the exception; p is free for another call.
Return(p) ==
    /\ calls[p].pc = "done"
    /\ calls' = [calls EXCEPT ![p] = Idle]
    /\ UNCHANGED <<clock, indices, created, nextId>>

(***************************************************************************)
(* The wall clock                                                          *)
(***************************************************************************)
MonthsElapsed == (clock.year - FirstClock.year) * 12 + clock.month - FirstClock.month

NextDay ==
    /\ clock.day < MaxDay
    /\ clock' = [clock EXCEPT !.day = @ + 1]
    /\ UNCHANGED <<indices, created, nextId, calls>>

NextMonth ==
    /\ MonthsElapsed < MaxMonths
    /\ clock' = IF clock.month = 12
                THEN [year |-> clock.year + 1, month |-> 1, day |-> 1]
                ELSE [year |-> clock.year, month |-> clock.month + 1, day |-> 1]
    /\ UNCHANGED <<indices, created, nextId, calls>>

(***************************************************************************)
(* Specifications                                                          *)
(***************************************************************************)
\* Windows that start at 0 or 1, <<1, 0>> among them, and those from 0.
Windows == {w \in Times \X Times : w[1] <= 1}
WindowsFrom0 == {w \in Windows : w[1] = 0}

\* Optional group lists other than None.
GroupLists == {Some({}), Some({"group1"}), Some(Groups)}

\* Inputs of the query specification.  Agent 001 in group1 takes every status
\* and time, and every severity at times 0 and 1; the other agent and the
\* other group appear at time 0, events there and at later times at severity
\* 14.  Every window is queried without a filter, the windows from 0 with the
\* other filters as well.
QueryInputs ==
    [agents |-> {a \in [agent : AgentSchema, utcnow : Times] :
                    \/ a.agent.agent_id = "001" /\ a.agent.group_name = "group1"
                    \/ a.utcnow = 0 /\ a.agent.agent_status = "Active"
                       /\ (a.agent.agent_id = "001" \/ a.agent.group_name = "group1")},
     events |-> {e \in WazuhEvent :
                    \/ e.agent_id = "001" /\ e.group_name = "group1" /\ e.timestamp <= 1
                    \/ e.agent_id = "001" /\ e.group_name = "group1" /\ e.rule_level = 14
                    \/ e.timestamp = 0 /\ e.rule_level = 14},
     windows |-> Windows,
     agent_queries |-> (Windows \X {None}) \cup (WindowsFrom0 \X GroupLists),
     group_queries |-> (Windows \X {{"group1"}}) \cup (WindowsFrom0 \X {{}, Groups}),
     agent_event_queries |-> (Windows \X {"001"}) \cup (WindowsFrom0 \X {"002"}),
     message_queries |-> (Windows \X {None} \X Limits)
                            \cup (WindowsFrom0 \X GroupLists \X {1})]

\* Inputs of the concurrent specification: several callers, one window.
RaceInputs ==
    [agents |-> {a \in [agent : AgentSchema, utcnow : {0}] :
                    /\ a.agent.agent_status = "Active"
                    /\ a.agent.agent_id = "001" \/ a.agent.group_name = "group1"},
     events |-> {e \in WazuhEvent : e.timestamp = 0 /\ e.rule_level = 14
                                    /\ e.agent_id = "001" /\ e.group_name = "group1"},
     windows |-> {<<0, MaxTime>>},
     agent_queries |-> {<<<<0, MaxTime>>, None>>},
     group_queries |-> {<<<<0, MaxTime>>, Groups>>},
     agent_event_queries |-> {<<<<0, MaxTime>>, "001">>},
     message_queries |-> {<<<<0, MaxTime>>, None, 1>>}]

\* Inputs of the clock specification: one caller, one window, the clock runs.
ClockInputs == RaceInputs

\* Entering any of the operations.
Call(p, in) ==
    \/ Call_AgentModel_save(p, in)
    \/ Call_EventModel_save(p, in)
    \/ Call_load_agents(p, in)
    \/ Call_load_group_events(p, in)
    \/ Call_load_agent_events(p, in)
    \/ Call_load_all_events(p, in)
    \/ Call_get_events_in_timerange(p, in)
    \/ Call_get_high_level_event_count(p, in)
    \/ Call_get_events_for_pie_chart(p, in)
    \/ Call_load_messages(p, in)

\* The partition step of an operation under way.
Ensure(p) ==
    \/ indices_exists(p)
    \/ indices_create(p)

\* The store call of an operation under way, and its return.
Body(p) ==
    \/ AgentModel_save_to_elasticsearch(p)
    \/ EventModel_save_to_elasticsearch(p)
    \/ load_agents(p)
    \/ load_group_events_from_elasticsearch(p)
    \/ load_from_elasticsearch_with_time_range(p)
    \/ load_all_events_from_elasticsearch(p)
    \/ get_events_in_timerange(p)
    \/ get_high_level_event_count(p)
    \/ get_events_for_pie_chart(p)
    \/ load_messages(p)
    \/ Return(p)

\* One caller, every operation on every input, the clock stands still.
Next == \E p \in {1} : Call(p, QueryInputs) \/ Ensure(p) \/ Body(p)

Spec == Init /\ [][Next]_vars

\* One caller, every operation, the clock runs through days and months.
NextClock ==
    \/ \E p \in {1} : Call(p, ClockInputs) \/ Ensure(p) \/ Body(p)
    \/ NextDay
    \/ NextMonth

SpecClock == Init /\ [][NextClock]_vars

\* Several callers interleaving the store calls of agent saves and of a search.
NextRace ==
    \E p \in Callers :
        \/ Call_AgentModel_save(p, RaceInputs)
        \/ Call_load_agents(p, RaceInputs)
        \/ Ensure(p)
        \/ AgentModel_save_to_elasticsearch(p)
        \/ load_agents(p)
        \/ Return(p)

SpecRace == Init /\ [][NextRace]_vars

(***************************************************************************)
(* Properties                                                              *)
(***************************************************************************)
\* The store failed on one of the calls of p's operation.
StoreFailed(p) == \E i \in 1..Len(calls[p].log) : calls[p].log[i].failure

\* p's operation has returned a result.
Returned(p, op) ==
    calls[p].pc = "done" /\ calls[p].op = op /\ calls[p].exc = NoExc

\* p is past create_index_with_mapping, which returned its key.
Ensured(p) ==
    /\ calls[p].pc \in {"call", "done"}
    /\ \E i \in 1..Len(calls[p].log) :
          calls[p].log[i].call \in {"exists", "create"} /\ calls[p].log[i].outcome \in
              {"true", "created", "resource_already_exists_exception"}

SameMonth(a, b) == a.year = b.year /\ a.month = b.month

\* C1: partition creation is idempotent: a call of create_index_with_mapping
\* in the month in which an earlier call created the partition returns the key
\* of that partition, no operation raises unless the store failed, every
\* partition is created once and keeps the mapping it was created with.
C1_CreateIdempotent ==
    /\ \A p \in Callers :
          /\ Ensured(p) =>
                \A name \in DOMAIN created :
                    SameMonth(created[name].at, calls[p].at) => calls[p].index_name = name
          /\ calls[p].exc # NoExc => StoreFailed(p)
    /\ \A name \in DOMAIN indices :
          /\ created[name].count = 1
          /\ indices[name].mappings = mapping.mappings

\* A later call, on another day of the month of creation, found the partition
\* and completed.
C1_Witness ==
    \E p \in Callers :
        /\ calls[p].pc = "done" /\ calls[p].exc = NoExc
        /\ calls[p].log[1].outcome = "true"
        /\ calls[p].index_name \in DOMAIN created
        /\ SameMonth(created[calls[p].index_name].at, calls[p].at)
        /\ created[calls[p].index_name].at.day # calls[p].at.day

\* C2: under every interleaving of concurrent callers, every caller gets the
\* same key of the month and raises only if the store failed, a caller past
\* create_index_with_mapping finds its partition in place, and the partition
\* was created exactly once.
C2_ConcurrentCreate ==
    /\ \A p \in Callers :
          /\ calls[p].exc # NoExc => StoreFailed(p)
          /\ Ensured(p) =>
                /\ calls[p].index_name \in DOMAIN indices
                /\ created[calls[p].index_name].count = 1
                /\ indices[calls[p].index_name].mappings = mapping.mappings
    /\ \A p, q \in Callers :
          Ensured(p) /\ Ensured(q) /\ SameMonth(calls[p].at, calls[q].at)
              => calls[p].index_name = calls[q].index_name

\* A caller whose create was answered "already exists" completed its operation
\* without an exception.
C2_Witness ==
    \E p \in Callers :
        /\ calls[p].pc = "done" /\ calls[p].exc = NoExc
        /\ \E i \in 1..Len(calls[p].log) :
              /\ calls[p].log[i].call = "create"
              /\ calls[p].log[i].outcome = "resource_already_exists_exception"

\* Ids of the agent documents of agent_id in partition name.
AgentDocIds(name, agent_id) ==
    IF name \in DOMAIN indices
    THEN {id \in DOMAIN indices[name].docs :
             /\ indices[name].docs[id].wazuh_data_type = "agent_info"
             /\ indices[name].docs[id].agent_id = agent_id}
    ELSE {}

\* The agent documents of agent_id in partition name.
AgentSources(name, agent_id) ==
    {indices[name].docs[id] : id \in AgentDocIds(name, agent_id)}

IndexNames == DOMAIN indices \cup {calls[p].index_name : p \in Callers}

\* This step is the successful es.index of p's agent save.
AgentSaved(p) ==
    /\ AtCall(p, "AgentModel.save_to_elasticsearch")
    /\ calls'[p].pc = "done"
    /\ calls'[p].exc = NoExc

\* C3: a partition holds at most one agent document per agent_id; after a
\* successful agent save the partition's document of that agent_id is the one
\* just written, and it changes only by a successful save for that agent_id.
C3_AgentUpsert ==
    /\ [](\A name \in DOMAIN indices, a \in AgentIds :
             Cardinality(AgentDocIds(name, a)) <= 1)
    /\ [][/\ \A p \in Callers :
                AgentSaved(p) =>
                    AgentSources(calls[p].index_name, calls[p].args.agent.agent_id)'
                        = {AgentModel_to_dict(calls[p].args.agent)}
          /\ \A name \in IndexNames, a \in AgentIds :
                AgentSources(name, a)' # AgentSources(name, a) =>
                    \E p \in Callers :
                        /\ AgentSaved(p)
                        /\ calls[p].index_name = name
                        /\ calls[p].args.agent.agent_id = a]_vars

\* An agent save overwrote the document of an earlier save, which had another
\* group, for the same agent_id.
C3_Witness ==
    \E p \in Callers :
        /\ Returned(p, "AgentModel.save_to_elasticsearch")
        /\ calls[p].result.result = "updated"
        /\ calls[p].args.agent.group_name = "group2"
        /\ Cardinality(AgentDocIds(calls[p].index_name, calls[p].args.agent.agent_id)) = 1

\* The answer of the store to the last store call of p's operation.
LastAnswer(p) == calls[p].log[Len(calls[p].log)]

\* C4: a not-found answer of the store during a read operation surfaces as
\* UserNotFoundError.
C4_NotFoundSurfaces ==
    \A p \in Callers :
        /\ calls[p].pc = "done"
        /\ calls[p].op \in ReadOps
        /\ LastAnswer(p).outcome = NotFoundError.error
        => calls[p].exc = UserNotFoundError

\* C5: a store failure other than not-found, at any store call of any
\* operation, surfaces as ElasticsearchError.
C5_StoreFaultSurfaces ==
    \A p \in Callers :
        /\ calls[p].pc = "done"
        /\ LastAnswer(p).failure
        /\ LastAnswer(p).outcome # NotFoundError.error
        => calls[p].exc = ElasticsearchError

\* The time of a stored document.
Ts(src) == ParseDate(src.timestamp)

\* The documents the store holds for p's partition.
Stored(p) == Docs(p)

\* src is one of the groups of an optional group list (any group if omitted
\* or empty).
InGroups(src, group_names) == Truthy(group_names) => src.group_name \in group_names[1]

\* The list seq holds exactly the documents with the given ids, as a bag.
SameBag(seq, docs, ids) ==
    /\ Len(seq) = Cardinality(ids)
    /\ \A id \in ids :
          Cardinality({i \in 1..Len(seq) : seq[i] = docs[id]})
              = Cardinality({j \in ids : docs[j] = docs[id]})

\* The list seq holds only documents with the given ids, none more often than
\* the ids hold it.
SubBag(seq, docs, ids) ==
    \A i \in 1..Len(seq) :
        /\ \E id \in ids : docs[id] = seq[i]
        /\ Cardinality({k \in 1..Len(seq) : seq[k] = seq[i]})
              <= Cardinality({j \in ids : docs[j] = seq[i]})

\* Agent documents of the listed groups with start <= timestamp <= end.
AgentsInWindow(p) ==
    LET a == calls[p].args
    IN {id \in DOMAIN Stored(p) :
           /\ Stored(p)[id].wazuh_data_type = "agent_info"
           /\ a.start_time <= Ts(Stored(p)[id]) /\ Ts(Stored(p)[id]) <= a.end_time
           /\ InGroups(Stored(p)[id], a.group_names)}

\* Documents of the listed groups with rule_level > 8 and start <= timestamp,
\* and timestamp <= end (closed) or timestamp < end (half-open).
MessagesInWindow(p, closed) ==
    LET a == calls[p].args
    IN {id \in DOMAIN Stored(p) :
           /\ "rule_level" \in DOMAIN Stored(p)[id]
           /\ Stored(p)[id].rule_level > 8
           /\ a.start_time <= Ts(Stored(p)[id])
           /\ IF closed THEN Ts(Stored(p)[id]) <= a.end_time
                        ELSE Ts(Stored(p)[id]) < a.end_time
           /\ InGroups(Stored(p)[id], a.group_names)}

ValidWindow(p) == calls[p].args.start_time <= calls[p].args.end_time

\* C6 as stated: load_agents and load_messages are inclusive on both time
\* bounds: they return exactly the matching documents with
\* start <= timestamp <= end (load_messages when the limit does not cut).
C6_BothInclusive ==
    \A p \in Callers :
        /\ Returned(p, "load_agents") /\ ValidWindow(p)
              => SameBag(calls[p].result, Stored(p), AgentsInWindow(p))
        /\ (/\ Returned(p, "load_messages") /\ ValidWindow(p)
            /\ calls[p].args.limit >= Cardinality(MessagesInWindow(p, TRUE)))
              => SameBag(calls[p].result.messages, Stored(p), MessagesInWindow(p, TRUE))

\* C6 amended: load_agents is inclusive on both time bounds and returns
\* exactly the agent documents with start <= timestamp <= end; load_messages
\* is inclusive on start and exclusive on end: it returns only documents with
\* start <= timestamp < end, all of them when the limit does not cut.
C6_AgentsInclusiveMessagesHalfOpen ==
    \A p \in Callers :
        /\ Returned(p, "load_agents") /\ ValidWindow(p)
              => SameBag(calls[p].result, Stored(p), AgentsInWindow(p))
        /\ Returned(p, "load_messages") /\ ValidWindow(p)
              => /\ SubBag(calls[p].result.messages, Stored(p), MessagesInWindow(p, FALSE))
                 /\ calls[p].args.limit >= Cardinality(MessagesInWindow(p, FALSE))
                       => SameBag(calls[p].result.messages, Stored(p),
                                  MessagesInWindow(p, FALSE))

\* load_messages returned a page that leaves out a high-severity event whose
\* timestamp equals end_time, though the limit had room for it.
C6_Witness ==
    \E p \in Callers :
        /\ Returned(p, "load_messages")
        /\ calls[p].args.start_time < calls[p].args.end_time
        /\ calls[p].args.limit = 101
        /\ Len(calls[p].result.messages) = 1
        /\ Cardinality(MessagesInWindow(p, TRUE)) = 2

\* The _source documents of a list of hits.
HitSources(hits) == [i \in 1..Len(hits) |-> hits[i]._source]

\* The documents an operation returned, as a list of _source documents.
ReturnedDocs(p) ==
    IF calls[p].op \in {"get_events_in_timerange", "get_events_for_pie_chart"}
    THEN HitSources(calls[p].result)
    ELSE calls[p].result

RawScans == {"get_events_in_timerange", "get_events_for_pie_chart"}

\* C7 as stated: every document returned by the event reads other than the
\* message feed has start <= timestamp < end.
C7_EventReadsHalfOpen ==
    \A p \in Callers :
        /\ calls[p].pc = "done" /\ calls[p].exc = NoExc
        /\ calls[p].op \in DecoratedEventOps \cup RawScans
        /\ ValidWindow(p)
        => \A i \in 1..Len(ReturnedDocs(p)) :
              /\ calls[p].args.start_time <= Ts(ReturnedDocs(p)[i])
              /\ Ts(ReturnedDocs(p)[i]) < calls[p].args.end_time

\* Event documents with timestamp = end_time that pass the filter of p's
\* load operation.
EventsAtEnd(p) ==
    LET a == calls[p].args
    IN {id \in DOMAIN Stored(p) :
           /\ Stored(p)[id].wazuh_data_type = "wazuh_events"
           /\ Ts(Stored(p)[id]) = a.end_time
           /\ calls[p].op = "load_group_events_from_elasticsearch"
                 => Stored(p)[id].group_name \in a.group_names
           /\ calls[p].op = "load_from_elasticsearch_with_time_range"
                 => Stored(p)[id].agent_id = a.agent_id}

\* C7 amended: the raw scans get_events_in_timerange and
\* get_events_for_pie_chart return only documents with start <= timestamp <
\* end; load_group_events, load_agent_events and load_all_events return only
\* documents with start <= timestamp <= end, and they do return the events of
\* their filter whose timestamp equals end_time.
C7_ScansHalfOpenLoadsInclusive ==
    \A p \in Callers :
        /\ calls[p].pc = "done" /\ calls[p].exc = NoExc
        /\ calls[p].op \in DecoratedEventOps \cup RawScans
        /\ ValidWindow(p)
        => /\ \A i \in 1..Len(ReturnedDocs(p)) :
                 /\ calls[p].args.start_time <= Ts(ReturnedDocs(p)[i])
                 /\ IF calls[p].op \in RawScans
                    THEN Ts(ReturnedDocs(p)[i]) < calls[p].args.end_time
                    ELSE Ts(ReturnedDocs(p)[i]) <= calls[p].args.end_time
           /\ calls[p].op \in DecoratedEventOps =>
                 \A id \in EventsAtEnd(p) :
                     \E i \in 1..Len(ReturnedDocs(p)) : ReturnedDocs(p)[i] = Stored(p)[id]

\* load_all_events returned an event whose timestamp equals end_time, in a
\* window that is not a single instant.
C7_Witness ==
    \E p \in Callers :
        /\ Returned(p, "load_all_events_from_elasticsearch")
        /\ calls[p].args.start_time < calls[p].args.end_time
        /\ \E i \in 1..Len(calls[p].result) :
              Ts(calls[p].result[i]) = calls[p].args.end_time

\* Documents with 8 <= rule_level <= 14 and start <= timestamp < end.
HighLevelInWindow(p) ==
    LET a == calls[p].args
    IN {id \in DOMAIN Stored(p) :
           /\ "rule_level" \in DOMAIN Stored(p)[id]
           /\ 8 <= Stored(p)[id].rule_level /\ Stored(p)[id].rule_level <= 14
           /\ a.start_time <= Ts(Stored(p)[id]) /\ Ts(Stored(p)[id]) < a.end_time}

\* C8: get_high_level_event_count returns the number of documents of the
\* partition with 8 <= rule_level <= 14 and start <= timestamp < end, and it
\* issues no search: the only store calls are exists, create and count.
C8_HighLevelCount ==
    \A p \in Callers :
        Returned(p, "get_high_level_event_count") =>
            /\ calls[p].result = Cardinality(HighLevelInWindow(p))
            /\ \A i \in 1..Len(calls[p].log) :
                  calls[p].log[i].call \in {"exists", "create", "count"}

\* A count of 1 over a window that holds an event of severity 7 or 15 next to
\* the counted one of severity 8 or 14.
C8_Witness ==
    \E p \in Callers :
        /\ Returned(p, "get_high_level_event_count")
        /\ calls[p].result = 1
        /\ \E id \in DOMAIN Stored(p) :
              /\ "rule_level" \in DOMAIN Stored(p)[id]
              /\ Stored(p)[id].rule_level \in {7, 15}
              /\ calls[p].args.start_time <= Ts(Stored(p)[id])
              /\ Ts(Stored(p)[id]) < calls[p].args.end_time
        /\ \E id \in HighLevelInWindow(p) : Stored(p)[id].rule_level \in {8, 14}

Malformed(p) ==
    /\ calls[p].op \in ReadOps
    /\ \/ calls[p].args.start_time > calls[p].args.end_time
       \/ /\ calls[p].op = "load_messages"
          /\ ~AgentMessagesRequest_limit(calls[p].args.limit)

\* C10: a malformed call is rejected before any store call: it issues no
\* store call and returns no result.
C10_RejectedBeforeStore ==
    \A p \in Callers :
        Malformed(p) => calls[p].log = <<>> /\ ~(calls[p].pc = "done" /\ calls[p].exc = NoExc)

\* The store calls p's operation has issued, in order.
StoreCalls(p) == [i \in 1..Len(calls[p].log) |-> calls[p].log[i].call]

\* The answer to the i-th store call of p is a creation error other than
\* "already exists".
CreateError(p, i) ==
    /\ calls[p].log[i].call = "create"
    /\ calls[p].log[i].outcome \notin {"created", AlreadyExists.error}

\* C11: a creation error other than "already exists" is fatal to the save or
\* read that triggered it: the failed create is the operation's last store
\* call (no index, search or count follows), the operation has ended with an
\* exception, and it has no result.
C11_CreateErrorFatal ==
    \A p \in Callers :
        \A i \in 1..Len(calls[p].log) :
            CreateError(p, i) =>
                /\ i = Len(calls[p].log)
                /\ calls[p].pc = "done"
                /\ calls[p].exc # NoExc
                /\ calls[p].result = None

\* A read ended on a create that the store answered with a request error
\* other than "already exists".
C11_Witness ==
    \E p \in Callers :
        /\ calls[p].pc = "done"
        /\ calls[p].op \in ReadOps
        /\ CreateError(p, Len(calls[p].log))
        /\ LastAnswer(p).outcome = BadRequest.error
        /\ calls[p].exc = Surfaced(calls[p].op, BadRequest)

\* C12: no retry: an operation issues each store call (exists, create, and
\* its index, search or count) at most once and in that order, and a store
\* call that failed is its last: the operation has ended with an exception.
\* (An "already exists" answer to create is not a fault; see C2.)
C12_NoRetry ==
    \A p \in Callers :
        /\ \A i, j \in 1..Len(calls[p].log) :
              i # j => StoreCalls(p)[i] # StoreCalls(p)[j]
        /\ Len(calls[p].log) <= 3
        /\ \A i \in 1..Len(calls[p].log) :
              calls[p].log[i].failure =>
                  /\ i = Len(calls[p].log)
                  /\ calls[p].pc = "done"
                  /\ calls[p].exc # NoExc

\* An operation whose third store call failed ended there, after one exists,
\* one create and one search.
C12_Witness ==
    \E p \in Callers :
        /\ calls[p].pc = "done"
        /\ calls[p].exc # NoExc
        /\ StoreCalls(p) = <<"exists", "create", "search">>
        /\ calls[p].log[3].failure

\* The status strings in use that contain an uppercase character.
Uppercase(s) == s \in {"Active", "Disconnected"}

\* C13: every stored agent document has a status without an uppercase
\* character; after a successful save of an agent with status "Active" the
\* partition's document of that agent has status "active"; load_agents returns
\* every agent document of its window and groups, each with a status without
\* an uppercase character.
C13_StatusLowercased ==
    /\ \A name \in DOMAIN indices :
          \A id \in DOMAIN indices[name].docs :
              indices[name].docs[id].wazuh_data_type = "agent_info"
                  => ~Uppercase(indices[name].docs[id].agent_status)
    /\ \A p \in Callers :
          /\ (Returned(p, "AgentModel.save_to_elasticsearch")
              /\ calls[p].args.agent.agent_status = "Active")
                => /\ AgentDocId(calls[p].args.agent) \in DOMAIN Stored(p)
                   /\ Stored(p)[AgentDocId(calls[p].args.agent)].agent_status = "active"
          /\ Returned(p, "load_agents") =>
                /\ \A i \in 1..Len(calls[p].result) :
                      ~Uppercase(calls[p].result[i].agent_status)
                /\ \A id \in AgentsInWindow(p) :
                      \E i \in 1..Len(calls[p].result) : calls[p].result[i] = Stored(p)[id]

\* load_agents returned agent 002, which is only ever saved with status
\* "Active", with status "active".
C13_Witness ==
    \E p \in Callers :
        /\ Returned(p, "load_agents")
        /\ \E i \in 1..Len(calls[p].result) :
              /\ calls[p].result[i].agent_id = "002"
              /\ calls[p].result[i].agent_status = "active"

\* Event documents with start <= timestamp <= end whose group is one of
\* group_names, a plain list.
GroupEventsInWindow(p) ==
    LET a == calls[p].args
    IN {id \in DOMAIN Stored(p) :
           /\ Stored(p)[id].wazuh_data_type = "wazuh_events"
           /\ a.start_time <= Ts(Stored(p)[id]) /\ Ts(Stored(p)[id]) <= a.end_time
           /\ Stored(p)[id].group_name \in a.group_names}

\* C14: group filtering: load_agents returns exactly the agent documents of
\* its window whose group is one of the listed groups, and load_messages only
\* (and, when the limit does not cut, all) the high-severity documents of its
\* window whose group is one of the listed groups, where an omitted or empty
\* list restricts nothing; load_group_events returns exactly the events of its
\* window whose group is one of the given groups, none for an empty list.
C14_GroupFilter ==
    \A p \in Callers :
        /\ Returned(p, "load_agents")
              => SameBag(calls[p].result, Stored(p), AgentsInWindow(p))
        /\ Returned(p, "load_messages")
              => /\ SubBag(calls[p].result.messages, Stored(p), MessagesInWindow(p, FALSE))
                 /\ calls[p].args.limit >= Cardinality(MessagesInWindow(p, FALSE))
                       => SameBag(calls[p].result.messages, Stored(p),
                                  MessagesInWindow(p, FALSE))
        /\ Returned(p, "load_group_events_from_elasticsearch")
              => /\ SameBag(calls[p].result, Stored(p), GroupEventsInWindow(p))
                 /\ calls[p].args.group_names = {} => calls[p].result = <<>>

\* load_group_events for group1 returned one event and left out an event of
\* group2 that lies in the window.
C14_Witness ==
    \E p \in Callers :
        /\ Returned(p, "load_group_events_from_elasticsearch")
        /\ calls[p].args.group_names = {"group1"}
        /\ Len(calls[p].result) = 1
        /\ \E id \in DOMAIN Stored(p) :
              /\ Stored(p)[id].wazuh_data_type = "wazuh_events"
              /\ Stored(p)[id].group_name = "group2"
              /\ calls[p].args.start_time <= Ts(Stored(p)[id])
              /\ Ts(Stored(p)[id]) <= calls[p].args.end_time

\* The optional MITRE fields of an event.
MitreFields == {"rule_mitre_id", "rule_mitre_tactic", "rule_mitre_technique"}

\* C15: the document EventModel.to_dict produces for an event that did not
\* supply a MITRE field does not have that field, and no stored event
\* document has a MITRE field with a null value.
C15_MitreAbsent ==
    /\ \A p \in Callers :
          calls[p].op = "EventModel.save_to_elasticsearch" =>
              LET event == calls[p].args.event
                  event_dict == EventModel_to_dict(event)
              IN \A f \in MitreFields :
                    event[f] = None => f \notin DOMAIN event_dict
    /\ \A name \in DOMAIN indices :
          \A id \in DOMAIN indices[name].docs :
              indices[name].docs[id].wazuh_data_type = "wazuh_events" =>
                  \A f \in MitreFields :
                      f \in DOMAIN indices[name].docs[id]
                          => indices[name].docs[id][f] # None

\* What get_high_level_event_count(x, y) returns on the store contents docs.
HighLevelCount(docs, x, y) ==
    CountResponse(docs, get_high_level_event_count_query(x, y)).count

\* Ids of the hits get_events_in_timerange(x, y) returns on the store
\* contents docs.
TimerangeIds(docs, x, y) ==
    Matching(docs, get_events_in_timerange_query(x, y, MAX_RESULTS).query)

\* Ids of a list of hits.
HitIds(hits) == {hits[i]._id : i \in 1..Len(hits)}

\* C16: no double counting at a window boundary: for a <= b <= c and the
\* store contents of the call, get_high_level_event_count(a, c) returns the
\* sum of what (a, b) and (b, c) return, and get_events_in_timerange(a, c)
\* returns the union of what (a, b) and (b, c) return, which are disjoint; a
\* document with timestamp b is in the second part only.
C16_NoDoubleCount ==
    \A p \in Callers : \A b \in Times :
        LET a == calls[p].args.start_time
            c == calls[p].args.end_time
        IN /\ (Returned(p, "get_high_level_event_count") /\ a <= b /\ b <= c)
                 => calls[p].result
                        = HighLevelCount(Stored(p), a, b) + HighLevelCount(Stored(p), b, c)
           /\ (Returned(p, "get_events_in_timerange") /\ a <= b /\ b <= c)
                 => LET first == TimerangeIds(Stored(p), a, b)
                        second == TimerangeIds(Stored(p), b, c)
                    IN /\ first \cap second = {}
                       /\ first \cup second = HitIds(calls[p].result)
                       /\ Len(calls[p].result) = Cardinality(first) + Cardinality(second)
                       /\ \A id \in DOMAIN Stored(p) :
                             (Ts(Stored(p)[id]) = b /\ b < c)
                                 => id \in second /\ id \notin first

\* A count of 2 over a window whose inner boundary 1 carries one of the two
\* counted events: it counts once, in the second half.
C16_Witness ==
    \E p \in Callers :
        /\ Returned(p, "get_high_level_event_count")
        /\ calls[p].args.start_time = 0 /\ calls[p].args.end_time = 2
        /\ calls[p].result = 2
        /\ HighLevelCount(Stored(p), 0, 1) = 1
        /\ HighLevelCount(Stored(p), 1, 2) = 1
        /\ \E id \in HighLevelInWindow(p) : Ts(Stored(p)[id]) = 1

\* The documents a read returned, as a list of _source documents.
ResultDocs(p) ==
    CASE calls[p].op \in RawScans -> HitSources(calls[p].result)
      [] calls[p].op = "load_messages" -> calls[p].result.messages
      [] calls[p].op = "get_high_level_event_count" -> <<>>
      [] OTHER -> calls[p].result

\* The number of documents a read returned or counted.
ResultSize(p) ==
    IF calls[p].op = "get_high_level_event_count"
    THEN calls[p].result
    ELSE Len(ResultDocs(p))

\* p's read has returned a result.
ReadReturned(p) ==
    calls[p].pc = "done" /\ calls[p].op \in ReadOps /\ calls[p].exc = NoExc

\* C17: every operation resolves its partition from the wall clock at call
\* time and touches only that partition: its key is the key of the month of
\* the call; once the partition step is passed, that partition exists and was
\* created by a call made in that month; a read returns or counts only
\* documents of that partition, nothing when it is empty, whatever the
\* partitions of other months hold; and no read is refused for a missing
\* partition.
C17_ActivePartitionOnly ==
    /\ \A name \in DOMAIN created : name = index_name_of(created[name].at)
    /\ \A p \in Callers :
          /\ calls[p].pc # "idle" => calls[p].index_name = index_name_of(calls[p].at)
          /\ Ensured(p) =>
                /\ calls[p].index_name \in DOMAIN indices
                /\ SameMonth(created[calls[p].index_name].at, calls[p].at)
          /\ ReadReturned(p) =>
                /\ SubBag(ResultDocs(p), Stored(p), DOMAIN Stored(p))
                /\ ResultSize(p) <= Cardinality(DOMAIN Stored(p))
          /\ \A i \in 1..Len(calls[p].log) :
                calls[p].log[i].outcome = NotFoundError.error => calls[p].log[i].failure

\* A load_all_events invoked in the month after an event was saved created
\* the partition of its month and returned an empty list, though the event's
\* timestamp lies in its window.
C17_Witness ==
    \E p \in Callers :
        /\ Returned(p, "load_all_events_from_elasticsearch")
        /\ ~SameMonth(calls[p].at, FirstClock)
        /\ calls[p].result = <<>>
        /\ StoreCalls(p) = <<"exists", "create", "search">>
        /\ calls[p].log[2].outcome = "created"
        /\ index_name_of(FirstClock) \in DOMAIN indices
        /\ \E id \in DOMAIN indices[index_name_of(FirstClock)].docs :
              LET src == indices[index_name_of(FirstClock)].docs[id]
              IN /\ src.wazuh_data_type = "wazuh_events"
                 /\ calls[p].args.start_time <= Ts(src)
                 /\ Ts(src) <= calls[p].args.end_time

\* Documents of p's partition, of any tag, with start <= timestamp < end.
AllInWindow(p) ==
    LET a == calls[p].args
    IN {id \in DOMAIN Stored(p) :
           a.start_time <= Ts(Stored(p)[id]) /\ Ts(Stored(p)[id]) < a.end_time}

\* C18: get_events_in_timerange and get_events_for_pie_chart return every
\* document of the partition with start <= timestamp < end, agent_info
\* documents included; load_group_events, load_agent_events and
\* load_all_events return only documents tagged wazuh_events, and load_agents
\* only documents tagged agent_info.
C18_RawScansUnfiltered ==
    \A p \in Callers :
        /\ (calls[p].pc = "done" /\ calls[p].exc = NoExc /\ calls[p].op \in RawScans)
              => SameBag(HitSources(calls[p].result), Stored(p), AllInWindow(p))
        /\ (calls[p].pc = "done" /\ calls[p].exc = NoExc /\ calls[p].op \in DecoratedEventOps)
              => \A i \in 1..Len(calls[p].result) :
                    calls[p].result[i].wazuh_data_type = "wazuh_events"
        /\ Returned(p, "load_agents")
              => \A i \in 1..Len(calls[p].result) :
                    calls[p].result[i].wazuh_data_type = "agent_info"

\* get_events_for_pie_chart returned an agent_info document next to an event.
C18_Witness ==
    \E p \in Callers :
        /\ Returned(p, "get_events_for_pie_chart")
        /\ Len(calls[p].result) = 2
        /\ \E i \in 1..2 : calls[p].result[i]._source.wazuh_data_type = "agent_info"
        /\ \E i \in 1..2 : calls[p].result[i]._source.wazuh_data_type = "wazuh_events"

\* The documents of partition name, none if there is no such partition.
DocsOf(name) == IF name \in DOMAIN indices THEN indices[name].docs ELSE <<>>

\* This step is the successful es.index of p's event save.
EventSaved(p) ==
    /\ AtCall(p, "EventModel.save_to_elasticsearch")
    /\ calls'[p].pc = "done"
    /\ calls'[p].exc = NoExc

\* Every document of every partition, but those with id `but` in partition
\* `in`, is there after the step as it was before.
OthersUnchanged(in, but) ==
    \A name \in DOMAIN indices' :
        \A id \in DOMAIN DocsOf(name)' :
            (name # in \/ id \notin but) =>
                /\ id \in DOMAIN DocsOf(name)
                /\ DocsOf(name)'[id] = DocsOf(name)[id]

\* C19: no step removes a partition or a document; a successful event save
\* adds exactly one document, under a new id, to the partition of the call
\* and leaves every other document as it was; a successful agent save changes
\* at most the document agent_<agent_id> of the partition of the call; no
\* other step changes any document.
C19_SaveFootprint ==
    [][/\ DOMAIN indices \subseteq DOMAIN indices'
       /\ \A name \in DOMAIN indices :
             DOMAIN DocsOf(name) \subseteq DOMAIN DocsOf(name)'
       /\ \A p \in Callers :
             /\ EventSaved(p) =>
                   LET name == calls[p].index_name
                       id == calls'[p].result._id
                   IN /\ id \notin DOMAIN DocsOf(name)
                      /\ DOMAIN DocsOf(name)' = DOMAIN DocsOf(name) \cup {id}
                      /\ DocsOf(name)'[id] = EventModel_to_dict(calls[p].args.event)
                      /\ OthersUnchanged(name, {id})
             /\ AgentSaved(p) =>
                   LET name == calls[p].index_name
                       id == <<"agent_", calls[p].args.agent.agent_id>>
                   IN /\ id \in DOMAIN DocsOf(name)'
                      /\ OthersUnchanged(name, {id})
       /\ (\A p \in Callers : ~EventSaved(p) /\ ~AgentSaved(p))
             => OthersUnchanged(<<>>, {})]_vars

\* An event save has just added a second document equal to one the partition
\* already held.
C19_Witness ==
    \E p \in Callers :
        /\ Returned(p, "EventModel.save_to_elasticsearch")
        /\ calls[p].result.result = "created"
        /\ \E id \in DOMAIN Stored(p) :
              /\ id # calls[p].result._id
              /\ Stored(p)[id] = Stored(p)[calls[p].result._id]

====
